---- MODULE Spec2Model ----
(***************************************************************************)
(* IifConverter (fixofx/ofxtools/iif_converter.py) and the transaction     *)
(* extractor of IifParser (fixofx/ofxtools/iif_parser.py) as a state       *)
(* machine.  Python strings are TLA+ strings, read character by character  *)
(* with Len, SubSeq and \o.  A transaction is a function from the field    *)
(* names it holds to their values: an absent field is absent from DOMAIN.  *)
(***************************************************************************)
EXTENDS Integers, Sequences, FiniteSets, TLC

(***************************************************************************)
(* Bounds of the model.                                                    *)
(***************************************************************************)
\* longest transaction list of one statement
MaxTxns == 2

(***************************************************************************)
(* Python str primitives.                                                  *)
(***************************************************************************)
Ch(s, i) == SubSeq(s, i, i)

Digits == "0123456789"
LowerCs == "abcdefghijklmnopqrstuvwxyz"
UpperCs == "ABCDEFGHIJKLMNOPQRSTUVWXYZ"
\* the characters of the inputs in code point order (str comparison)
AsciiCs == " #$()-./" \o Digits \o UpperCs \o "^" \o LowerCs

IndexIn(cs, c) ==
    IF \E i \in 1..Len(cs) : Ch(cs, i) = c
    THEN CHOOSE i \in 1..Len(cs) : Ch(cs, i) = c
    ELSE 0

CharsOf(cs) == {Ch(cs, i) : i \in 1..Len(cs)}
DigitChars == CharsOf(Digits)
LowerChars == CharsOf(LowerCs)
UpperChars == CharsOf(UpperCs)
IsDigitCh(c) == c \in DigitChars
IsAlphaCh(c) == c \in LowerChars \/ c \in UpperChars
IsSpaceCh(c) == c = " "

\* str.isdigit()
IsDigit(s) == Len(s) > 0 /\ \A i \in 1..Len(s) : IsDigitCh(Ch(s, i))
\* str.isalpha()
IsAlpha(s) == Len(s) > 0 /\ \A i \in 1..Len(s) : IsAlphaCh(Ch(s, i))

\* str.strip()
RECURSIVE LStrip(_)
LStrip(s) == IF Len(s) > 0 /\ IsSpaceCh(Ch(s, 1))
             THEN LStrip(SubSeq(s, 2, Len(s))) ELSE s
RECURSIVE RStrip(_)
RStrip(s) == IF Len(s) > 0 /\ IsSpaceCh(Ch(s, Len(s)))
             THEN RStrip(SubSeq(s, 1, Len(s) - 1)) ELSE s
Strip(s) == RStrip(LStrip(s))

\* str.upper()
UpperOf == [c \in LowerChars |-> Ch(UpperCs, IndexIn(LowerCs, c))]
UpperCh(c) == IF c \in LowerChars THEN UpperOf[c] ELSE c
RECURSIVE Upper(_)
Upper(s) == IF Len(s) = 0 THEN s
            ELSE UpperCh(Ch(s, 1)) \o Upper(SubSeq(s, 2, Len(s)))

\* str.startswith(p)
StartsWith(s, p) == Len(p) <= Len(s) /\ SubSeq(s, 1, Len(p)) = p
\* p in s
Contains(s, p) == \E i \in 1..(Len(s) - Len(p) + 1) : SubSeq(s, i, i + Len(p) - 1) = p
\* s.replace(c, '', 1) for a one-character c
ReplaceFirst(s, c) ==
    IF IndexIn(s, c) = 0 THEN s
    ELSE LET k == CHOOSE i \in 1..Len(s) :
                     Ch(s, i) = c /\ \A j \in 1..(i - 1) : Ch(s, j) # c
         IN SubSeq(s, 1, k - 1) \o SubSeq(s, k + 1, Len(s))

\* a < b on str (code point order)
RECURSIVE StrLess(_, _)
StrLess(a, b) ==
    IF Len(b) = 0 THEN FALSE
    ELSE IF Len(a) = 0 THEN TRUE
    ELSE IF Ch(a, 1) = Ch(b, 1) THEN StrLess(SubSeq(a, 2, Len(a)), SubSeq(b, 2, Len(b)))
    ELSE IndexIn(AsciiCs, Ch(a, 1)) < IndexIn(AsciiCs, Ch(b, 1))

\* the value of a run of decimal digits
RECURSIVE DigitsVal(_)
DigitsVal(s) == IF Len(s) = 0 THEN 0
                ELSE 10 * DigitsVal(SubSeq(s, 1, Len(s) - 1)) + (IndexIn(Digits, Ch(s, Len(s))) - 1)

\* "%d" % n and str(n) for n >= 0
RECURSIVE IntStr(_)
IntStr(n) == IF n < 10 THEN Ch(Digits, n + 1)
             ELSE IntStr(n \div 10) \o Ch(Digits, (n % 10) + 1)

\* n rendered with at least w digits (strftime's zero padding)
RECURSIVE Pad(_, _)
Pad(s, w) == IF Len(s) >= w THEN s ELSE Pad("0" \o s, w)

\* int(s) succeeds: optional sign and digits, surrounding whitespace allowed
IntOk(s) ==
    LET t == Strip(s)
        u == IF Len(t) > 0 /\ Ch(t, 1) \in {"+", "-"} THEN SubSeq(t, 2, Len(t)) ELSE t
    IN IsDigit(u)

\* re.search("\D", s).start() + 1, or 0 when there is no match
FirstNonDigit(s) ==
    IF \E i \in 1..Len(s) : ~IsDigitCh(Ch(s, i))
    THEN CHOOSE i \in 1..Len(s) :
             ~IsDigitCh(Ch(s, i)) /\ \A j \in 1..(i - 1) : IsDigitCh(Ch(s, j))
    ELSE 0

(***************************************************************************)
(* dict primitives.                                                        *)
(***************************************************************************)
Get(t, k, dflt) == IF k \in DOMAIN t THEN t[k] ELSE dflt
Put(t, k, v) == [x \in (DOMAIN t) \cup {k} |-> IF x = k THEN v ELSE t[x]]
Del(t, k) == [x \in (DOMAIN t) \ {k} |-> t[x]]
EmptyTxn == [x \in {} |-> ""]

(***************************************************************************)
(* Dates.  dateutil.parser.parse is modelled on the date strings made of   *)
(* three runs of digits separated by "/" or "-", one of them longer than   *)
(* two digits (the year), and on the strings of eight digits; every other  *)
(* string of the inputs ("abc", the empty string) has no date in it and    *)
(* makes dateutil raise ValueError.                                        *)
(***************************************************************************)
DateSeps == {"/", "-"}

RECURSIVE Split(_)
Split(s) ==
    IF \E i \in 1..Len(s) : Ch(s, i) \in DateSeps
    THEN LET k == CHOOSE i \in 1..Len(s) :
                      Ch(s, i) \in DateSeps /\ \A j \in 1..(i - 1) : Ch(s, j) \notin DateSeps
         IN <<SubSeq(s, 1, k - 1)>> \o Split(SubSeq(s, k + 1, Len(s)))
    ELSE <<s>>

IsLeap(y) == (y % 4 = 0 /\ y % 100 # 0) \/ y % 400 = 0
DaysIn(y, m) == IF m = 2 THEN (IF IsLeap(y) THEN 29 ELSE 28)
                ELSE IF m \in {4, 6, 9, 11} THEN 30 ELSE 31

\* results of a date parse
NoDate == [kind |-> "ValueError", y |-> 0, m |-> 0, d |-> 0]
UnknownDate == [kind |-> "UNKNOWN", y |-> 0, m |-> 0, d |-> 0]
MkDate(y, m, d) ==
    IF y \in 1..9999 /\ m \in 1..12 /\ d \in 1..DaysIn(y, m)
    THEN [kind |-> "date", y |-> y, m |-> m, d |-> d]
    ELSE NoDate

\* dateutil's _ymd.resolve_ymd for three numbers, none of them a month name
ResolveYmd(v, ystridx, dayfirst) ==
    IF v[1] > 31 \/ ystridx = 1
    THEN (IF dayfirst /\ v[3] <= 12 THEN MkDate(v[1], v[3], v[2])
          ELSE MkDate(v[1], v[2], v[3]))
    ELSE IF v[1] > 12 \/ (dayfirst /\ v[2] <= 12)
    THEN MkDate(v[3], v[2], v[1])
    ELSE MkDate(v[3], v[1], v[2])

\* dateutil.parser.parse(s, dayfirst=dayfirst)
DateutilParse(s0, dayfirst) ==
    LET s == Strip(s0)
        toks == IF IsDigit(s) /\ Len(s) = 8
                THEN <<SubSeq(s, 1, 4), SubSeq(s, 5, 6), SubSeq(s, 7, 8)>>
                ELSE Split(s)
        years == IF Len(toks) = 3 THEN {i \in 1..3 : Len(toks[i]) > 2} ELSE {}
    IN IF Len(toks) = 3 /\ (\A i \in 1..3 : IsDigit(toks[i])) /\ Cardinality(years) = 1
       THEN ResolveYmd([i \in 1..3 |-> DigitsVal(toks[i])],
                       CHOOSE i \in years : TRUE, dayfirst)
       ELSE NoDate

\* parsed_date.strftime("%Y%m%d")
Strftime(dt) == IntStr(dt.y) \o Pad(IntStr(dt.m), 2) \o Pad(IntStr(dt.d), 2)

\* IifConverter._parse_date: a date, "UNKNOWN", or ValueError raised
ParseDate(txn_date, dayfirst) ==
    IF txn_date # "UNKNOWN"
    THEN LET first == IF ~IsAlpha(txn_date) THEN DateutilParse(txn_date, dayfirst)
                      ELSE NoDate
             slashified == SubSeq(txn_date, 1, 2) \o "/" \o SubSeq(txn_date, 3, 4)
                           \o "/" \o SubSeq(txn_date, 5, Len(txn_date))
         IN IF first.kind = "date" THEN first
            ELSE IF ~IsAlpha(txn_date) /\ Len(txn_date) = 8 /\ IntOk(txn_date)
            THEN DateutilParse(slashified, dayfirst)
            ELSE NoDate
    ELSE UnknownDate

\* IifConverter._check_date_format: the new day-first flag, and whether
\* int() raised ValueError on an empty leading run
CheckDateFormat(parsed_date, txn_date, dayfirst) ==
    LET pos == FirstNonDigit(txn_date)
        lead == SubSeq(txn_date, 1, pos - 1)
    IN IF pos = 0 THEN [err |-> "", dayfirst |-> dayfirst]
       ELSE IF ~IntOk(lead) THEN [err |-> "ValueError", dayfirst |-> dayfirst]
       ELSE [err |-> "",
             dayfirst |-> IF parsed_date.kind = "date"
                             /\ 13 <= DigitsVal(lead) /\ DigitsVal(lead) <= 31
                          THEN TRUE ELSE dayfirst]

\* Outcome of one cleanup rule: the transaction as the rule left it, and the
\* exception it raised ("" when it returned)
Ok(t) == [txn |-> t, err |-> ""]
Raise(t, e) == [txn |-> t, err |-> e]

\* _clean_txn_date as it would be if it parsed without self.dayfirst
CleanTxnDateMonthFirst(txn, dayfirst) ==
    LET txn_date == Strip(Get(txn, "Date", "UNKNOWN"))
        parsed_date == ParseDate(txn_date, FALSE)
    IN IF txn_date # "UNKNOWN"
       THEN (IF parsed_date.kind = "date"
             THEN Ok(Put(txn, "Date", Strftime(parsed_date)))
             ELSE Raise(txn, "ValueError"))
       ELSE Ok(Put(txn, "Date", "UNKNOWN"))

\* IifConverter._clean_txn_date
CleanTxnDate(txn, dayfirst) ==
    LET txn_date == Strip(Get(txn, "Date", "UNKNOWN"))
        parsed_date == ParseDate(txn_date, dayfirst)
    IN IF txn_date # "UNKNOWN"
       THEN (IF parsed_date.kind = "date"
             THEN Ok(Put(txn, "Date", Strftime(parsed_date)))
             ELSE Raise(txn, "ValueError"))
       ELSE Ok(Put(txn, "Date", "UNKNOWN"))

(***************************************************************************)
(* Amounts.  Decimal(s) is modelled on the strings of an optional sign,    *)
(* digits and at most one point; every other string raises, which          *)
(* _clean_txn_amount swallows.                                             *)
(***************************************************************************)
DecimalOk(s) ==
    LET t == Strip(s)
        u == IF Len(t) > 0 /\ Ch(t, 1) \in {"+", "-"} THEN SubSeq(t, 2, Len(t)) ELSE t
        dot == IndexIn(u, ".")
        ip == IF dot = 0 THEN u ELSE SubSeq(u, 1, dot - 1)
        fp == IF dot = 0 THEN "" ELSE SubSeq(u, dot + 1, Len(u))
    IN /\ Len(ip) + Len(fp) > 0
       /\ \A i \in 1..Len(ip) : IsDigitCh(Ch(ip, i))
       /\ \A i \in 1..Len(fp) : IsDigitCh(Ch(fp, i))

\* str(Decimal(s).quantize(Decimal('.01'))), rounding half to even
Quantize(s) ==
    LET t == Strip(s)
        neg == Len(t) > 0 /\ Ch(t, 1) = "-"
        u == IF Len(t) > 0 /\ Ch(t, 1) \in {"+", "-"} THEN SubSeq(t, 2, Len(t)) ELSE t
        dot == IndexIn(u, ".")
        ip == IF dot = 0 THEN u ELSE SubSeq(u, 1, dot - 1)
        fp == IF dot = 0 THEN "" ELSE SubSeq(u, dot + 1, Len(u))
        two == SubSeq(fp \o "00", 1, 2)
        rest == SubSeq(fp, 3, Len(fp))
        cents == DigitsVal(ip) * 100 + DigitsVal(two)
        r1 == IF Len(rest) = 0 THEN 0 ELSE DigitsVal(Ch(rest, 1))
        tail == DigitsVal(SubSeq(rest, 2, Len(rest)))
        up == r1 > 5 \/ (r1 = 5 /\ (tail > 0 \/ cents % 2 = 1))
        c == IF up THEN cents + 1 ELSE cents
    IN (IF neg THEN "-" ELSE "") \o IntStr(c \div 100) \o "." \o Pad(IntStr(c % 100), 2)

\* IifConverter._clean_txn_amount
CleanTxnAmount(txn) ==
    LET txn_amount == Get(txn, "Amount", "00.00")
        txn_amount2 == Get(txn, "Amount2", "00.00")
        a1 == IF txn_amount = "00.00" THEN txn_amount2 ELSE txn_amount
        a2 == ReplaceFirst(Strip(a1), "$")
        a3 == IF Ch(a2, Len(a2)) = "-" THEN "-" \o SubSeq(a2, 1, Len(a2) - 1) ELSE a2
        a4 == IF DecimalOk(a3) THEN Quantize(a3) ELSE a3
    IN IF txn_amount = "-" \/ txn_amount = " " THEN Raise(txn, "ValueError")
       ELSE IF Len(a2) = 0 THEN Raise(txn, "IndexError")
       ELSE Ok(Put(txn, "Amount", a4))

\* IifConverter._txn_sign
TxnSign(txn_amount) == IF StartsWith(txn_amount, "-") THEN "debit" ELSE "credit"

(***************************************************************************)
(* Number, type and payee rules.                                           *)
(***************************************************************************)
\* re.compile("\d+").search(s): some digit occurs in s
AllDigitsSearch(s) == \E i \in 1..Len(s) : IsDigitCh(Ch(s, i))

\* IifConverter._clean_txn_number
CleanTxnNumber(txn, accttype) ==
    LET txn_number == Strip(Get(txn, "Number", "UNKNOWN"))
    IN IF txn_number = "N/A" THEN Ok(Del(txn, "Number"))
       ELSE IF StartsWith(txn_number, "XXXX-XXXX-XXXX") THEN Ok(Del(txn, "Number"))
       ELSE IF txn_number # "UNKNOWN" /\ accttype = "CREDITCARD" THEN Ok(Del(txn, "Number"))
       ELSE IF txn_number = "0000000000" /\ accttype # "CREDITCARD" THEN Ok(Del(txn, "Number"))
       ELSE IF txn_number # "UNKNOWN" /\ AllDigitsSearch(txn_number)
       THEN Ok(Put(txn, "Type", "CHECK"))
       ELSE Ok(txn)

\* IifConverter.txn_types: the keys in the order the dict iterates them
TxnTypeKeys ==
    << "ACH", "CHECK CARD", "CREDIT", "DBT", "DEBIT", "INT", "DIV", "FEE",
       "SRVCHG", "DEP", "DEPOSIT", "ATM", "POS", "XFER", "CHECK", "PAYMENT",
       "CASH", "DIRECTDEP", "DIRECTDEBIT", "REPEATPMT", "OTHER" >>
\* IifConverter.txn_types: the substitution of each key
TxnTypeVals ==
    << "ACH", "POS", "CREDIT", "DEBIT", "DEBIT", "INT", "DIV", "FEE",
       "SRVCHG", "DEP", "DEP", "ATM", "POS", "XFER", "CHECK", "PAYMENT",
       "CASH", "DIRECTDEP", "DIRECTDEBIT", "REPEATPMT", "OTHER" >>
InTxnTypes(k) == \E i \in 1..Len(TxnTypeKeys) : TxnTypeKeys[i] = k
CanonicalTypes == {TxnTypeVals[i] : i \in 1..Len(TxnTypeVals)}

\* IifConverter._clean_txn_type
CleanTxnType(txn) ==
    LET txn_type == Get(txn, "Type", "UNKNOWN")
        txn_memo == Get(txn, "Memo", "UNKNOWN")
        txn_category == Get(txn, "Category", "UNKNOWN")
        category_upper == Upper(txn_category)
        memo_upper == Upper(txn_memo)
        hit(i) == \/ Contains(category_upper, TxnTypeKeys[i])
                  \/ Contains(memo_upper, TxnTypeKeys[i])
        hits == {i \in 1..Len(TxnTypeKeys) : hit(i)}
    IN IF InTxnTypes(Upper(txn_type)) THEN Ok(Put(txn, "Type", Upper(txn_type)))
       ELSE IF hits # {}
       THEN Ok(Put(txn, "Type", TxnTypeKeys[CHOOSE i \in hits : \A j \in hits : i <= j]))
       ELSE Ok(txn)

\* _clean_txn_payee as it would be if the memo and category branches came
\* after the "Other Debit" / "Other Credit" branches
CleanTxnPayeeOtherFirst(txn, accttype) ==
    LET txn_payee == Get(txn, "Payee", "UNKNOWN")
        txn_memo == Get(txn, "Memo", "UNKNOWN")
        txn_category == Get(txn, "Category", "UNKNOWN")
        txn_number == Get(txn, "Number", "UNKNOWN")
        txn_type == Get(txn, "Type", "UNKNOWN")
        txn_amount == Get(txn, "Amount", "UNKNOWN")
        txn_sign == TxnSign(txn_amount)
        t1 == IF txn_payee # "UNKNOWN" THEN txn
              ELSE IF txn_number # "UNKNOWN" /\ accttype \in {"CHECKING", "SAVINGS"}
              THEN Put(Put(txn, "Payee", "Check #" \o txn_number), "Type", "CHECK")
              ELSE IF txn_type = "INT" /\ txn_sign = "debit" THEN Put(txn, "Payee", "Interest paid")
              ELSE IF txn_type = "INT" /\ txn_sign = "credit" THEN Put(txn, "Payee", "Interest earned")
              ELSE IF txn_type = "ATM" /\ txn_sign = "debit" THEN Put(txn, "Payee", "ATM Withdrawal")
              ELSE IF txn_type = "ATM" /\ txn_sign = "credit" THEN Put(txn, "Payee", "ATM Deposit")
              ELSE IF txn_type = "POS" /\ txn_sign = "debit" THEN Put(txn, "Payee", "Point of Sale Payment")
              ELSE IF txn_type = "POS" /\ txn_sign = "credit" THEN Put(txn, "Payee", "Point of Sale Credit")
              ELSE IF txn_type = "UNKNOWN" /\ txn_sign = "debit"
              THEN Put(Put(txn, "Payee", "Other Debit"), "Type", "DEBIT")
              ELSE IF txn_type = "UNKNOWN" /\ txn_sign = "credit"
              THEN Put(Put(txn, "Payee", "Other Credit"), "Type", "CREDIT")
              ELSE IF txn_memo # "UNKNOWN" THEN Put(txn, "Payee", txn_memo)
              ELSE IF txn_category # "UNKNOWN" THEN Put(txn, "Payee", txn_category)
              ELSE txn
        t2 == IF "Type" \notin DOMAIN t1 /\ txn_sign = "debit" THEN Put(t1, "Type", "DEBIT")
              ELSE IF "Type" \notin DOMAIN t1 /\ txn_sign = "credit" THEN Put(t1, "Type", "CREDIT")
              ELSE t1
    IN IF txn_memo # "UNKNOWN"
       THEN (IF "Payee" \in DOMAIN t2
             THEN Ok(Put(t2, "Payee", t2["Payee"] \o " (" \o txn_memo \o ")"))
             ELSE Raise(t2, "KeyError"))
       ELSE Ok(t2)

\* _clean_txn_payee as it would be without the final default of the Type from
\* the sign of the amount
CleanTxnPayeeNoDefault(txn, accttype) ==
    LET txn_payee == Get(txn, "Payee", "UNKNOWN")
        txn_memo == Get(txn, "Memo", "UNKNOWN")
        txn_category == Get(txn, "Category", "UNKNOWN")
        txn_number == Get(txn, "Number", "UNKNOWN")
        txn_type == Get(txn, "Type", "UNKNOWN")
        txn_amount == Get(txn, "Amount", "UNKNOWN")
        txn_sign == TxnSign(txn_amount)
        t1 == IF txn_payee # "UNKNOWN" THEN txn
              ELSE IF txn_number # "UNKNOWN" /\ accttype \in {"CHECKING", "SAVINGS"}
              THEN Put(Put(txn, "Payee", "Check #" \o txn_number), "Type", "CHECK")
              ELSE IF txn_type = "INT" /\ txn_sign = "debit" THEN Put(txn, "Payee", "Interest paid")
              ELSE IF txn_type = "INT" /\ txn_sign = "credit" THEN Put(txn, "Payee", "Interest earned")
              ELSE IF txn_type = "ATM" /\ txn_sign = "debit" THEN Put(txn, "Payee", "ATM Withdrawal")
              ELSE IF txn_type = "ATM" /\ txn_sign = "credit" THEN Put(txn, "Payee", "ATM Deposit")
              ELSE IF txn_type = "POS" /\ txn_sign = "debit" THEN Put(txn, "Payee", "Point of Sale Payment")
              ELSE IF txn_type = "POS" /\ txn_sign = "credit" THEN Put(txn, "Payee", "Point of Sale Credit")
              ELSE IF txn_memo # "UNKNOWN" THEN Put(txn, "Payee", txn_memo)
              ELSE IF txn_category # "UNKNOWN" THEN Put(txn, "Payee", txn_category)
              ELSE IF txn_type = "UNKNOWN" /\ txn_sign = "debit"
              THEN Put(Put(txn, "Payee", "Other Debit"), "Type", "DEBIT")
              ELSE IF txn_type = "UNKNOWN" /\ txn_sign = "credit"
              THEN Put(Put(txn, "Payee", "Other Credit"), "Type", "CREDIT")
              ELSE txn
        t2 == t1
    IN IF txn_memo # "UNKNOWN"
       THEN (IF "Payee" \in DOMAIN t2
             THEN Ok(Put(t2, "Payee", t2["Payee"] \o " (" \o txn_memo \o ")"))
             ELSE Raise(t2, "KeyError"))
       ELSE Ok(t2)

\* IifConverter._clean_txn_payee
CleanTxnPayee(txn, accttype) ==
    LET txn_payee == Get(txn, "Payee", "UNKNOWN")
        txn_memo == Get(txn, "Memo", "UNKNOWN")
        txn_category == Get(txn, "Category", "UNKNOWN")
        txn_number == Get(txn, "Number", "UNKNOWN")
        txn_type == Get(txn, "Type", "UNKNOWN")
        txn_amount == Get(txn, "Amount", "UNKNOWN")
        txn_sign == TxnSign(txn_amount)
        t1 == IF txn_payee # "UNKNOWN" THEN txn
              ELSE IF txn_number # "UNKNOWN" /\ accttype \in {"CHECKING", "SAVINGS"}
              THEN Put(Put(txn, "Payee", "Check #" \o txn_number), "Type", "CHECK")
              ELSE IF txn_type = "INT" /\ txn_sign = "debit" THEN Put(txn, "Payee", "Interest paid")
              ELSE IF txn_type = "INT" /\ txn_sign = "credit" THEN Put(txn, "Payee", "Interest earned")
              ELSE IF txn_type = "ATM" /\ txn_sign = "debit" THEN Put(txn, "Payee", "ATM Withdrawal")
              ELSE IF txn_type = "ATM" /\ txn_sign = "credit" THEN Put(txn, "Payee", "ATM Deposit")
              ELSE IF txn_type = "POS" /\ txn_sign = "debit" THEN Put(txn, "Payee", "Point of Sale Payment")
              ELSE IF txn_type = "POS" /\ txn_sign = "credit" THEN Put(txn, "Payee", "Point of Sale Credit")
              ELSE IF txn_memo # "UNKNOWN" THEN Put(txn, "Payee", txn_memo)
              ELSE IF txn_category # "UNKNOWN" THEN Put(txn, "Payee", txn_category)
              ELSE IF txn_type = "UNKNOWN" /\ txn_sign = "debit"
              THEN Put(Put(txn, "Payee", "Other Debit"), "Type", "DEBIT")
              ELSE IF txn_type = "UNKNOWN" /\ txn_sign = "credit"
              THEN Put(Put(txn, "Payee", "Other Credit"), "Type", "CREDIT")
              ELSE txn
        t2 == IF "Type" \notin DOMAIN t1 /\ txn_sign = "debit" THEN Put(t1, "Type", "DEBIT")
              ELSE IF "Type" \notin DOMAIN t1 /\ txn_sign = "credit" THEN Put(t1, "Type", "CREDIT")
              ELSE t1
    IN IF txn_memo # "UNKNOWN"
       THEN (IF "Payee" \in DOMAIN t2
             THEN Ok(Put(t2, "Payee", t2["Payee"] \o " (" \o txn_memo \o ")"))
             ELSE Raise(t2, "KeyError"))
       ELSE Ok(t2)

\* IifConverter._clean_txn: rule n of the five
CleanRule(n, txn, dayfirst, accttype) ==
    CASE n = 1 -> CleanTxnDate(txn, dayfirst)
      [] n = 2 -> CleanTxnAmount(txn)
      [] n = 3 -> CleanTxnNumber(txn, accttype)
      [] n = 4 -> CleanTxnType(txn)
      [] n = 5 -> CleanTxnPayee(txn, accttype)

\* IifConverter._clean_txn from rule n on: the rules run in order and stop at
\* the first exception; the transaction keeps what the earlier rules wrote
RECURSIVE CleanFrom(_, _, _, _)
CleanFrom(n, r, dayfirst, accttype) ==
    IF n > 5 \/ r.err # "" THEN r
    ELSE CleanFrom(n + 1, CleanRule(n, r.txn, dayfirst, accttype), dayfirst, accttype)

\* IifConverter._clean_txn
CleanTxn(txn, dayfirst, accttype) == CleanFrom(1, Ok(txn), dayfirst, accttype)

(***************************************************************************)
(* Transaction extractor.                                                  *)
(***************************************************************************)
\* IifParser.trns_items
TrnsItems ==
    [ TRNSID |-> "Number", TIMESTAMP |-> "Timestamp", TRNSTYPE |-> "Type",
      DATE |-> "Date", ACCNT |-> "Accnt", NAME |-> "Payee", CLASS |-> "Category",
      AMOUNT |-> "Amount", DOCNUM |-> "Docnum", MEMO |-> "Memo",
      CLEAR |-> "Clear", PRICE |-> "Price" ]

\* the inner loop of IifParser.get_txn_list: the values of one TRNS record
\* zipped against the header, from value i on; trns_fields[i] raises
\* IndexError past the header's last column
RECURSIVE ZipTrn(_, _, _, _)
ZipTrn(trns_fields, trn, i, txn) ==
    IF i > Len(trn) THEN Ok(txn)
    ELSE IF i > Len(trns_fields) THEN Raise(txn, "IndexError")
    ELSE ZipTrn(trns_fields, trn, i + 1, Put(txn, TrnsItems[trns_fields[i]], trn[i]))

\* IifParser.get_txn_list on the first statement section
\* (IifConverter._extract_txn_list)
GetTxnList(trns_block) ==
    LET trns_fields == trns_block.TRNS_FLDS
        trns == trns_block.TRNS
        zip(k) == ZipTrn(trns_fields, trns[k], 1, EmptyTxn)
    IN IF \E k \in 1..Len(trns) : zip(k).err # ""
       THEN [txns |-> <<>>, err |-> "IndexError"]
       ELSE [txns |-> [k \in 1..Len(trns) |-> zip(k).txn], err |-> ""]

(***************************************************************************)
(* Inputs: the parse trees of the first statement section of an IIF text.  *)
(***************************************************************************)
RECURSIVE SeqsUpTo(_, _)
SeqsUpTo(S, n) ==
    IF n = 0 THEN {<<>>}
    ELSE LET shorter == SeqsUpTo(S, n - 1)
         IN shorter \cup {Append(q, x) : q \in {r \in shorter : Len(r) = n - 1}, x \in S}

DateInputs == {"03/25/2016", "25/03/2016", "03/04/2016", "2016/03/25",
               "03252016", "13252016", "abc"}
AmountInputs == {"-50.00", "-", " ", "$45"}

\* statements of up to MaxTxns records under the header AMOUNT, DATE: a
\* record may stop short of the header (no DATE value) or run past it
StatementFlds == <<"AMOUNT", "DATE">>
StatementTrns ==
    {<<"-50.00", d>> : d \in DateInputs} \cup {<<a, "03/25/2016">> : a \in AmountInputs}
    \cup {<<"-50.00">>, <<"-50.00", "03/25/2016", "x">>}
StatementDocs ==
    {[TRNS_FLDS |-> StatementFlds, TRNS |-> q] : q \in SeqsUpTo(StatementTrns, MaxTxns)}

\* statements of one record whose header declares any of these columns
RecordCols == <<"DATE", "AMOUNT", "TRNSTYPE", "MEMO", "TRNSID", "NAME", "CLASS">>
RecordVals ==
    [ DATE |-> {"03/25/2016"},
      AMOUNT |-> {"-50.00", "12.50"},
      TRNSTYPE |-> {"dbt", "INT", "FOO"},
      MEMO |-> {"Grocery", "MAINTENANCE"},
      TRNSID |-> {"0452", "N/A", "A1", "ABC"},
      NAME |-> {"Acme"},
      CLASS |-> {"Deposit"} ]
RECURSIVE Rows(_)
Rows(k) ==
    IF k > Len(RecordCols) THEN {[flds |-> <<>>, trn |-> <<>>]}
    ELSE LET rest == Rows(k + 1)
         IN rest \cup {[flds |-> <<RecordCols[k]>> \o r.flds, trn |-> <<v>> \o r.trn] :
                           v \in RecordVals[RecordCols[k]], r \in rest}
RecordDocs ==
    {[TRNS_FLDS |-> r.flds, TRNS |-> <<r.trn>>] : r \in {x \in Rows(1) : Len(x.flds) > 0}}

\* statements of one record under the header AMOUNT, DATE whose amount is
\* empty, blank, a lone dollar sign, not a number, or signed at the end
OddAmounts == {"", "  ", "$", "abc", "45.5-"}
AmountDocs ==
    {[TRNS_FLDS |-> StatementFlds, TRNS |-> <<<<a, "03/25/2016">>>>] : a \in OddAmounts}

Docs == StatementDocs \cup RecordDocs \cup AmountDocs
AcctTypes == {"UNKNOWN", "CHECKING", "CREDITCARD"}
\* what strftime("%Y%m%d", localtime()) can return
Clock == {"20160101", "20161231"}
\* an attribute not assigned yet
Unset == "<unset>"
\* IifConverter.__init__'s default for org
Org == "UNKNOWN"

(***************************************************************************)
(* State.                                                                  *)
(***************************************************************************)
VARIABLES
    pc,            \* where the program is: "extract", "guess", "constructed"
                   \* (inside __init__), "ready" (the caller holds the
                   \* converter), "clean" (inside _clean_txn_list), "cleaned",
                   \* "done" (after _ofx_txns)
    error,         \* the exception that left the running method, "" if none
    parsed_iif,    \* self.parsed_iif: the first statement section
    txn_list,      \* the list of transactions of the running method
    raw_list,      \* txn_list as _clean_txn_list received it
    i,             \* position of the running for loop in txn_list
    dayfirst_arg,  \* the dayfirst argument of the constructor
    dayfirst,      \* self.dayfirst
    curdef,        \* self.curdef ("None" for None)
    accttype,      \* self.accttype
    txns_by_date,  \* self.txns_by_date: date -> positions in txn_list
    start_date,    \* self.start_date
    end_date,      \* self.end_date
    txns           \* the transactions _ofx_txns emitted, in order

vars == <<pc, error, parsed_iif, txn_list, raw_list, i, dayfirst_arg, dayfirst,
          curdef, accttype, txns_by_date, start_date, end_date, txns>>

NoDoc == [TRNS_FLDS |-> <<>>, TRNS |-> <<>>]
NoBuckets == [d \in {} |-> <<>>]

\* IifConverter.__init__ up to the parse
Init ==
    /\ pc = "extract"
    /\ error = ""
    /\ parsed_iif \in Docs
    /\ txn_list = <<>>
    /\ raw_list = <<>>
    /\ i = 1
    /\ dayfirst_arg \in BOOLEAN
    /\ dayfirst = dayfirst_arg
    /\ curdef = "None"
    /\ accttype \in AcctTypes
    /\ txns_by_date = NoBuckets
    /\ start_date = Unset
    /\ end_date = Unset
    /\ txns = <<>>

\* IifConverter.__init__: txn_list = self._extract_txn_list(self.parsed_iif)
Extract ==
    /\ pc = "extract" /\ error = ""
    /\ LET r == GetTxnList(parsed_iif)
       IN IF r.err = ""
          THEN /\ txn_list' = r.txns
               /\ pc' = "guess"
               /\ error' = ""
          ELSE /\ txn_list' = txn_list
               /\ pc' = pc
               /\ error' = r.err
    /\ i' = 1
    /\ UNCHANGED <<parsed_iif, raw_list, dayfirst_arg, dayfirst, curdef, accttype,
                   txns_by_date, start_date, end_date, txns>>

\* IifConverter._guess_formats: one turn of the loop.  An exception of
\* _parse_date or _check_date_format leaves _guess_formats and __init__.
GuessFormats ==
    /\ pc = "guess" /\ error = "" /\ i <= Len(txn_list)
    /\ LET txn == txn_list[i]
           txn_date == Get(txn, "Date", "UNKNOWN")
           txn_currency == Get(txn, "Currency", "UNKNOWN")
           parsed_date == ParseDate(txn_date, FALSE)
           chk == CheckDateFormat(parsed_date, txn_date, dayfirst)
       IN IF parsed_date.kind = "ValueError"
          THEN /\ error' = "ValueError"
               /\ UNCHANGED <<dayfirst, curdef, i>>
          ELSE IF chk.err # ""
          THEN /\ error' = chk.err
               /\ UNCHANGED <<dayfirst, curdef, i>>
          ELSE /\ error' = ""
               /\ dayfirst' = chk.dayfirst
               /\ curdef' = IF curdef = "None" /\ txn_currency = "^EUR" THEN "EUR" ELSE curdef
               /\ i' = i + 1
    /\ UNCHANGED <<pc, parsed_iif, txn_list, raw_list, dayfirst_arg, accttype,
                   txns_by_date, start_date, end_date, txns>>

\* IifConverter.__init__ after _guess_formats: the call of _clean_txn_list
\* is commented out, the constructor is at its end
InitEnd ==
    /\ pc = "guess" /\ error = "" /\ i > Len(txn_list)
    /\ pc' = "constructed"
    /\ UNCHANGED <<error, parsed_iif, txn_list, raw_list, i, dayfirst_arg, dayfirst,
                   curdef, accttype, txns_by_date, start_date, end_date, txns>>

\* __init__ returns: its locals are gone, and no method reads
\* self.parsed_iif again, so the model forgets them
InitReturn ==
    /\ pc = "constructed" /\ error = ""
    /\ pc' = "ready"
    /\ txn_list' = <<>>
    /\ parsed_iif' = NoDoc
    /\ i' = 1
    /\ UNCHANGED <<error, raw_list, dayfirst_arg, dayfirst, curdef, accttype,
                   txns_by_date, start_date, end_date, txns>>

\* A caller invokes _clean_txn_list on the converter, with the transactions
\* extracted from a statement section
CleanTxnListCall ==
    /\ pc = "ready" /\ error = ""
    /\ \E doc \in Docs :
          LET r == GetTxnList(doc)
          IN /\ r.err = ""
             /\ txn_list' = r.txns
             /\ raw_list' = r.txns
    /\ pc' = "clean"
    /\ i' = 1
    /\ UNCHANGED <<error, parsed_iif, dayfirst_arg, dayfirst, curdef, accttype,
                   txns_by_date, start_date, end_date, txns>>

\* IifConverter._clean_txn_list: one turn of the first loop.  ValueError is
\* caught and the transaction not stored; any other exception leaves the
\* method.  The transaction is rewritten in place either way.
CleanTxnListStep ==
    /\ pc = "clean" /\ error = "" /\ i <= Len(txn_list)
    /\ LET r == CleanTxn(txn_list[i], dayfirst, accttype)
           txn_date == r.txn["Date"]
           txn_date_list == Get(txns_by_date, txn_date, <<>>)
       IN /\ txn_list' = [txn_list EXCEPT ![i] = r.txn]
          /\ IF r.err = ""
             THEN /\ txns_by_date' = Put(txns_by_date, txn_date, Append(txn_date_list, i))
                  /\ i' = i + 1
                  /\ error' = ""
             ELSE IF r.err = "ValueError"
             THEN /\ txns_by_date' = txns_by_date
                  /\ i' = i + 1
                  /\ error' = ""
             ELSE /\ txns_by_date' = txns_by_date
                  /\ i' = i
                  /\ error' = r.err
    /\ UNCHANGED <<pc, parsed_iif, raw_list, dayfirst_arg, dayfirst, curdef, accttype,
                   start_date, end_date, txns>>

\* list(d.keys()) sorted
RECURSIVE SortKeys(_)
SortKeys(S) ==
    IF S = {} THEN <<>>
    ELSE LET m == CHOOSE x \in S : \A y \in S \ {x} : StrLess(x, y)
         IN <<m>> \o SortKeys(S \ {m})
Reverse(q) == [k \in 1..Len(q) |-> q[Len(q) + 1 - k]]

\* IifConverter._clean_txn_list after the loop: the date range.  date_list[0]
\* raises IndexError on an empty index.
CleanTxnListEnd ==
    /\ pc = "clean" /\ error = "" /\ i > Len(txn_list)
    /\ LET date_list == SortKeys(DOMAIN txns_by_date)
       IN IF Len(txn_list) > 0
          THEN IF Len(date_list) = 0
               THEN /\ error' = "IndexError"
                    /\ UNCHANGED <<pc, start_date, end_date>>
               ELSE /\ start_date' = date_list[1]
                    /\ end_date' = date_list[Len(date_list)]
                    /\ pc' = "cleaned"
                    /\ error' = ""
          ELSE \E today \in Clock :
                    /\ start_date' = today
                    /\ end_date' = today
                    /\ pc' = "cleaned"
                    /\ error' = ""
    /\ UNCHANGED <<parsed_iif, txn_list, raw_list, i, dayfirst_arg, dayfirst, curdef,
                   accttype, txns_by_date, txns>>

\* the synthetic transaction ID of IifConverter._ofx_txns
TxnId(txn, txn_index, at) ==
    Org \o "-" \o at \o "-" \o Get(txn, "Date", "UNKNOWN") \o "-" \o IntStr(txn_index)
        \o "-" \o Get(txn, "Amount", "00.00")

\* the inner loop of _ofx_txns as it would be without txn_index -= 1
RECURSIVE OfxBucketNoCountdown(_, _, _, _, _)
OfxBucketNoCountdown(bucket, p, txn_index, at, st) ==
    IF p > Len(bucket) THEN st
    ELSE LET k == bucket[p]
             txn == Put(st.list[k], "ID", TxnId(st.list[k], txn_index, at))
         IN OfxBucketNoCountdown(bucket, p + 1, txn_index, at,
                [list |-> [st.list EXCEPT ![k] = txn], out |-> Append(st.out, txn)])

\* IifConverter._ofx_txns: the inner loop over one bucket, from position p
\* on; st holds the transactions and those emitted so far
RECURSIVE OfxBucket(_, _, _, _, _)
OfxBucket(bucket, p, txn_index, at, st) ==
    IF p > Len(bucket) THEN st
    ELSE LET k == bucket[p]
             txn == Put(st.list[k], "ID", TxnId(st.list[k], txn_index, at))
         IN OfxBucket(bucket, p + 1, txn_index - 1, at,
                      [list |-> [st.list EXCEPT ![k] = txn], out |-> Append(st.out, txn)])

\* IifConverter._ofx_txns: the outer loop over date_list, from position j on
RECURSIVE OfxDates(_, _, _, _, _)
OfxDates(date_list, j, buckets, at, st) ==
    IF j > Len(date_list) THEN st
    ELSE OfxDates(date_list, j + 1, buckets, at,
                  OfxBucket(buckets[date_list[j]], 1, Len(buckets[date_list[j]]), at, st))

\* the order in which IifConverter._ofx_txns visits the dates
OfxDateList(buckets) == Reverse(SortKeys(DOMAIN buckets))

\* A caller invokes _ofx_txns (through to_ofx102).  self.start_date raises
\* AttributeError when _clean_txn_list never ran.
OfxTxns ==
    /\ pc \in {"ready", "cleaned"} /\ error = ""
    /\ LET st == OfxDates(OfxDateList(txns_by_date), 1, txns_by_date, accttype,
                          [list |-> txn_list, out |-> <<>>])
       IN /\ txn_list' = st.list
          /\ txns' = st.out
    /\ IF start_date = Unset
       THEN /\ error' = "AttributeError"
            /\ pc' = pc
       ELSE /\ error' = ""
            /\ pc' = "done"
    /\ UNCHANGED <<parsed_iif, raw_list, i, dayfirst_arg, dayfirst, curdef, accttype,
                   txns_by_date, start_date, end_date>>

Next ==
    \/ Extract
    \/ GuessFormats
    \/ InitEnd
    \/ InitReturn
    \/ CleanTxnListCall
    \/ CleanTxnListStep
    \/ CleanTxnListEnd
    \/ OfxTxns

Spec == Init /\ [][Next]_vars

(***************************************************************************)
(* Properties.                                                             *)
(***************************************************************************)
\* _clean_txn_list is running or has run
InPass2 == pc \in {"clean", "cleaned", "done"}
\* transaction k is held by a bucket of self.txns_by_date
Indexed(k) ==
    \E d \in DOMAIN txns_by_date :
        \E p \in 1..Len(txns_by_date[d]) : txns_by_date[d][p] = k
\* the loop of _clean_txn_list has gone past transaction k
Processed(k) == InPass2 /\ k \in 1..Len(txn_list) /\ k < i
\* transaction k was rejected by _clean_txn and not stored
Dropped(k) == Processed(k) /\ ~Indexed(k)

\* the digit run before the first non-digit character of the Date
HasLead(t) == "Date" \in DOMAIN t /\ FirstNonDigit(t["Date"]) > 1
Lead(t) == DigitsVal(SubSeq(t["Date"], 1, FirstNonDigit(t["Date"]) - 1))

\* dd/mm/yyyy with a month 1..12 and a day every month has, and the same
\* date written yyyymmdd
IsDdMmYyyy(s) ==
    /\ Len(s) = 10 /\ Ch(s, 3) = "/" /\ Ch(s, 6) = "/"
    /\ IsDigit(SubSeq(s, 1, 2)) /\ IsDigit(SubSeq(s, 4, 5)) /\ IsDigit(SubSeq(s, 7, 10))
    /\ DigitsVal(SubSeq(s, 1, 2)) \in 1..28
    /\ DigitsVal(SubSeq(s, 4, 5)) \in 1..12
DayFirstReading(s) == SubSeq(s, 7, 10) \o SubSeq(s, 4, 5) \o SubSeq(s, 1, 2)

\* pass 2 under a set day-first flag reads every dd/mm/yyyy date it stores as
\* day, month, year
Pass2DayFirst ==
    (InPass2 /\ dayfirst) =>
        \A k \in 1..Len(txn_list) :
            (Processed(k) /\ Indexed(k) /\ "Date" \in DOMAIN raw_list[k]
             /\ IsDdMmYyyy(raw_list[k]["Date"]))
            => txn_list[k]["Date"] = DayFirstReading(raw_list[k]["Date"])

\* C1 as stated: when the constructor is at its end, every extracted
\* transaction has been normalized and is in a bucket of the index or dropped
C1_Original ==
    pc = "constructed" => \A k \in 1..Len(txn_list) : Indexed(k) \/ Dropped(k)

\* C2 as stated: a Date with a leading numeric group >= 13 leaves the
\* day-first flag true at the end of pass 1, and pass 2 reads dates day first
C2_Original ==
    /\ pc = "constructed" =>
          ((\E k \in 1..Len(txn_list) : HasLead(txn_list[k]) /\ Lead(txn_list[k]) >= 13)
           => dayfirst)
    /\ Pass2DayFirst

C2_State ==
    /\ pc = "constructed" =>
          ((\E k \in 1..Len(txn_list) :
               HasLead(txn_list[k]) /\ Lead(txn_list[k]) \in 13..31)
           => dayfirst)
    /\ Pass2DayFirst

\* C2 amended: when pass 1 completes on a statement with a Date whose leading
\* numeric group is in 13..31, the day-first flag is true; the flag is never
\* reset; and pass 2 under the flag reads each date day first
C2_Amended == [](C2_State) /\ [][dayfirst => dayfirst']_vars

\* C2: pass 1 set the flag the constructor was not given, and pass 2 stored
\* 03/04/2016 as the 3rd of April
C2_Witness ==
    /\ pc = "cleaned" /\ ~dayfirst_arg /\ dayfirst
    /\ \E k \in 1..Len(txn_list) :
          /\ Indexed(k)
          /\ Get(raw_list[k], "Date", "") = "03/04/2016"
          /\ txn_list[k]["Date"] = "20160403"

\* C3 as stated: pass 1 never raises, whatever the Date of a transaction
C3_Original == pc = "guess" => error = ""

\* the Amount is one of the two drop sentinels
IsSentinel(t) == "Amount" \in DOMAIN t /\ t["Amount"] \in {"-", " "}

\* C4 as stated: a transaction with Amount "-" or " " is dropped and never
\* makes _clean_txn_list fail
C4_Original ==
    (InPass2 /\ \E k \in 1..Len(raw_list) : IsSentinel(raw_list[k]))
    => /\ error = ""
       /\ \A k \in 1..Len(raw_list) :
             (Processed(k) /\ IsSentinel(raw_list[k])) => ~Indexed(k)

\* the Date is present, not empty, and _parse_date raises on it
IsBadDate(t) ==
    /\ "Date" \in DOMAIN t
    /\ Strip(t["Date"]) \notin {"", "UNKNOWN"}
    /\ ParseDate(Strip(t["Date"]), dayfirst).kind = "ValueError"

\* C5 as stated: pass 2 never goes past a transaction whose Date cannot be
\* parsed; it aborts there
C5_Original ==
    InPass2 => \A k \in 1..Len(raw_list) : IsBadDate(raw_list[k]) => i <= k

\* C6 as stated: when no transaction is in the index after the loop of
\* _clean_txn_list, the method ends without error with start date = end date
\* = the current date
C6_Original ==
    (pc \in {"clean", "cleaned"} /\ i > Len(txn_list) /\ DOMAIN txns_by_date = {})
    => /\ error = ""
       /\ pc = "cleaned" => (start_date \in Clock /\ end_date = start_date)

\* scenario A of the specification
ScenarioA == ("Date" :> "03/25/2016") @@ ("Amount" :> "-50.00") @@ ("Memo" :> "Grocery")
ScenarioAResult(payee) ==
    ("Date" :> "20160325") @@ ("Amount" :> "-50.00") @@ ("Memo" :> "Grocery")
        @@ ("Type" :> "DEBIT") @@ ("Payee" :> payee)

\* C7 as stated: scenario A is normalized to payee "Other Debit (Grocery)"
C7_Original ==
    \A k \in 1..Len(raw_list) :
        (pc \in {"clean", "cleaned"} /\ Processed(k) /\ raw_list[k] = ScenarioA)
        => (Indexed(k) /\ txn_list[k] = ScenarioAResult("Other Debit (Grocery)"))

\* C7 amended: scenario A is normalized to Date 20160325, Amount -50.00, Type
\* DEBIT and payee "Grocery (Grocery)": the memo, then the memo in parentheses
C7_Amended ==
    \A k \in 1..Len(raw_list) :
        (pc \in {"clean", "cleaned"} /\ Processed(k) /\ raw_list[k] = ScenarioA)
        => (Indexed(k) /\ txn_list[k] = ScenarioAResult("Grocery (Grocery)"))

\* C7: scenario A has been normalized and stored
C7_Witness ==
    /\ pc = "cleaned"
    /\ \E k \in 1..Len(raw_list) : raw_list[k] = ScenarioA /\ Indexed(k)

\* C8 as stated: a stored transaction has no Type or a canonical code
C8_Original ==
    \A k \in 1..Len(txn_list) :
        (Processed(k) /\ Indexed(k) /\ "Type" \in DOMAIN txn_list[k])
        => txn_list[k]["Type"] \in CanonicalTypes

\* eight digits
IsYyyyMmDd(s) == Len(s) = 8 /\ IsDigit(s)

\* C9 as stated: every bucket key, the start date and the end date are
\* 8-digit strings
C9_Original ==
    InPass2 =>
        /\ \A d \in DOMAIN txns_by_date : IsYyyyMmDd(d)
        /\ pc \in {"cleaned", "done"} => (IsYyyyMmDd(start_date) /\ IsYyyyMmDd(end_date))

\* the transactions emitted for date d, in order
EmittedOn(d) == SelectSeq(txns, LAMBDA t : t["Date"] = d)

\* C10: after _ofx_txns the transactions of a bucket of size n carry the
\* countdown indices n, n-1, ..., 1 in insertion order, the IDs within a
\* bucket are distinct, and the transactions were emitted bucket by bucket in
\* descending date order, each bucket in insertion order
C10_SyntheticIds ==
    pc = "done" =>
        /\ \A d \in DOMAIN txns_by_date :
              LET bucket == txns_by_date[d]
                  n == Len(bucket)
              IN /\ \A p \in 1..n :
                        txn_list[bucket[p]]["ID"] =
                            Org \o "-" \o accttype \o "-" \o d \o "-" \o IntStr(n + 1 - p)
                                \o "-" \o txn_list[bucket[p]]["Amount"]
                 /\ \A p, q \in 1..n :
                        p # q => txn_list[bucket[p]]["ID"] # txn_list[bucket[q]]["ID"]
                 /\ \A p \in 1..(n - 1) : bucket[p] < bucket[p + 1]
                 /\ EmittedOn(d) = [p \in 1..n |-> txn_list[bucket[p]]]
        /\ \A j, k \in 1..Len(txns) :
              j < k => ~StrLess(txns[j]["Date"], txns[k]["Date"])

\* C10: a bucket of two transactions with equal amounts got IDs
C10_Witness ==
    /\ pc = "done"
    /\ \E d \in DOMAIN txns_by_date :
          /\ Len(txns_by_date[d]) = 2
          /\ txn_list[txns_by_date[d][1]]["Amount"] = txn_list[txns_by_date[d][2]]["Amount"]
          /\ txn_list[txns_by_date[d][1]]["ID"] # txn_list[txns_by_date[d][2]]["ID"]

\* record k of the statement section has exactly the header's number of values
FieldCountOk(doc, k) == Len(doc.TRNS[k]) = Len(doc.TRNS_FLDS)

\* C11 as stated: a statement with a parent record whose number of values
\* differs from the number of columns of its header gets no further than the
\* parse: it is not extracted into transactions, and the only error it can
\* end in is a grammar error
C11_Original ==
    (\E k \in 1..Len(parsed_iif.TRNS) : ~FieldCountOk(parsed_iif, k))
    => /\ pc = "extract"
       /\ error \in {"", "GrammarError"}
       /\ txn_list = <<>>

\* transaction t as rules n..m of _clean_txn leave it (r is the outcome so far)
RECURSIVE RulesThrough(_, _, _)
RulesThrough(n, m, r) ==
    IF n > m \/ r.err # "" THEN r
    ELSE RulesThrough(n + 1, m, CleanRule(n, r.txn, dayfirst, accttype))
\* transaction k of the list _clean_txn_list received, as the rules before
\* rule n left it
BeforeRule(n, k) == RulesThrough(1, n - 1, Ok(raw_list[k]))
\* the same transaction as rule n left it
AfterRule(n, k) == RulesThrough(n, n, BeforeRule(n, k))
\* _clean_txn ran rule n on transaction k, and the rule returned
RanRule(n, k) ==
    /\ pc \in {"clean", "cleaned"} /\ Processed(k)
    /\ BeforeRule(n, k).err = "" /\ AfterRule(n, k).err = ""
TypeOf(t) == Get(t, "Type", "<absent>")

\* a character that can separate a key from the rest of a field
IsSepCh(c) == ~IsAlphaCh(c) /\ ~IsDigitCh(c)
\* field equals key, or begins with key followed by a separator character
KeyMatches(field, key) ==
    \/ field = key
    \/ /\ StartsWith(field, key) /\ Len(field) > Len(key)
       /\ IsSepCh(Ch(field, Len(key) + 1))
\* some alias key matches field, in the field's own or in upper case
SomeKeyMatches(field) ==
    \E j \in 1..Len(TxnTypeKeys) :
        KeyMatches(field, TxnTypeKeys[j]) \/ KeyMatches(Upper(field), TxnTypeKeys[j])

\* C12 as stated: when the Type is missing or unrecognized and no alias key
\* equals the Memo or the Category or begins it before a separator, the type
\* rule leaves the Type as it was
C12_Original ==
    \A k \in 1..Len(raw_list) :
        LET t == BeforeRule(4, k).txn
        IN (/\ RanRule(4, k)
            /\ ~InTxnTypes(Upper(Get(t, "Type", "UNKNOWN")))
            /\ ~SomeKeyMatches(Get(t, "Memo", "UNKNOWN"))
            /\ ~SomeKeyMatches(Get(t, "Category", "UNKNOWN")))
           => TypeOf(AfterRule(4, k).txn) = TypeOf(t)

\* the Amount is present and is not one of the two drop sentinels
HasPlainAmount(t) == "Amount" \in DOMAIN t /\ ~IsSentinel(t)
\* a decimal number with exactly two fractional digits
TwoDecimals(a) ==
    /\ Len(a) >= 4 /\ Ch(a, Len(a) - 2) = "."
    /\ IsDigit(SubSeq(a, Len(a) - 1, Len(a)))

\* C13 as stated: _clean_txn_list never stops with an exception at a
\* transaction whose Date was accepted and whose Amount is not a drop
\* sentinel; the transaction goes through the remaining rules and is stored,
\* its Amount either rendered with two fractional digits or not a decimal
C13_Original ==
    \A k \in 1..Len(raw_list) :
        (/\ pc \in {"clean", "cleaned"}
         /\ HasPlainAmount(raw_list[k])
         /\ BeforeRule(2, k).err = "")
        => /\ i = k => error = ""
           /\ Processed(k) =>
                 /\ Indexed(k)
                 /\ DecimalOk(txn_list[k]["Amount"]) => TwoDecimals(txn_list[k]["Amount"])

\* C14 as stated: the number rule changes the Type only when it keeps the
\* Number, the Number is made of digits only, and the transaction had no
\* Type; otherwise it leaves the Type as it was
C14_Original ==
    \A k \in 1..Len(raw_list) :
        LET t == BeforeRule(3, k).txn
            u == AfterRule(3, k).txn
        IN (RanRule(3, k) /\ TypeOf(u) # TypeOf(t))
           => /\ TypeOf(u) = "CHECK"
              /\ "Number" \in DOMAIN u
              /\ IsDigit(Strip(t["Number"]))
              /\ "Type" \notin DOMAIN t

\* the Type the final default of _clean_txn_payee gives for an amount
SignType(txn_amount) == IF StartsWith(txn_amount, "-") THEN "DEBIT" ELSE "CREDIT"
\* something before the final default gave transaction k its Type: it came
\* out of the first four rules with one, or the payee rule took its
\* "Check #" branch
TypeSetBefore(k) ==
    LET t == BeforeRule(5, k).txn
    IN \/ "Type" \in DOMAIN t
       \/ /\ "Payee" \notin DOMAIN t /\ "Number" \in DOMAIN t
          /\ accttype \in {"CHECKING", "SAVINGS"}

\* C15: every transaction _clean_txn returned without an exception has a
\* Type, and when nothing before the final default set one, the Type is
\* DEBIT if the cleaned Amount starts with a minus sign and CREDIT otherwise
C15_TypePresent ==
    \A k \in 1..Len(txn_list) :
        (Processed(k) /\ Indexed(k))
        => /\ "Type" \in DOMAIN txn_list[k]
           /\ \/ txn_list[k]["Type"] = SignType(txn_list[k]["Amount"])
              \/ TypeSetBefore(k)

\* C15: a transaction with a memo and no Type went through the memo branch
\* of the payee rule and was stored with the Type defaulted from its
\* positive amount
C15_Witness ==
    /\ pc = "cleaned"
    /\ \E k \in 1..Len(raw_list) :
          /\ Indexed(k)
          /\ raw_list[k] = ("Amount" :> "12.50") @@ ("Memo" :> "Grocery")
          /\ "Type" \notin DOMAIN BeforeRule(5, k).txn
          /\ txn_list[k]["Payee"] = "Grocery (Grocery)"
          /\ txn_list[k]["Type"] = "CREDIT"

====
